---- MODULE Spec2Model ----
(***************************************************************************)
(* Model of update_story_ids.py: renumbering of the "**Story ID**" fields  *)
(* of the planning/EPIC_*.md documents in declared epic order.             *)
(*                                                                         *)
(* A document text is a sequence of lexical units:                         *)
(*   "EL"  the literal  **Epic ID**:                                       *)
(*   "SL"  the literal  **Story ID**:                                      *)
(*   "MS"  the literal  MS-                                                *)
(*   "WS"  one whitespace character (space, tab, newline)                  *)
(*   "0".."9"  one decimal digit,  "a"  one ASCII letter                   *)
(* The two regular expressions of the script are evaluated on these units. *)
(***************************************************************************)
EXTENDS Integers, Sequences, FiniteSets, TLC

VARIABLES dirExists, disk, pc, queue, epic_files, idx, pos, out, replacements,
          current_id, total_updates, stdout, exit, reads, writes, assigned,
          results, orig, run, prev

vars == <<dirExists, disk, pc, queue, epic_files, idx, pos, out, replacements,
          current_id, total_updates, stdout, exit, reads, writes, assigned,
          results, orig, run, prev>>

\* ------------------------------------------------------------------ bounds
MaxChunks == 3
MaxRuns == 2

\* --------------------------------------------------------------- constants
START_STORY_ID == 10

\* ------------------------------------------------------- characters, ints
DigitChars == <<"0", "1", "2", "3", "4", "5", "6", "7", "8", "9">>

IsDigit(c) == \E d \in 1..10 : DigitChars[d] = c

DigitVal(c) == (CHOOSE d \in 1..10 : DigitChars[d] = c) - 1

IsSpace(c) == c = "WS"

\* the class [A-Za-z0-9\-]; the unit "MS" is the three characters M, S, -
IsIdChar(c) == IsDigit(c) \/ c \in {"a", "MS"}

RECURSIVE ParseInt(_)
ParseInt(digs) ==
    IF digs = <<>> THEN 0
    ELSE ParseInt(SubSeq(digs, 1, Len(digs) - 1)) * 10 + DigitVal(digs[Len(digs)])

RECURSIVE FormatInt(_)
FormatInt(n) ==
    IF n < 10 THEN <<DigitChars[n + 1]>>
    ELSE FormatInt(n \div 10) \o <<DigitChars[(n % 10) + 1]>>

\* ------------------------------------------------------------ the regexes
RECURSIVE SkipSpace(_, _)
SkipSpace(text, i) ==
    IF i <= Len(text) /\ IsSpace(text[i]) THEN SkipSpace(text, i + 1) ELSE i

RECURSIVE DigitRunEnd(_, _)
DigitRunEnd(text, i) ==
    IF i <= Len(text) /\ IsDigit(text[i]) THEN DigitRunEnd(text, i + 1) ELSE i - 1

RECURSIVE IdRunEnd(_, _)
IdRunEnd(text, i) ==
    IF i <= Len(text) /\ IsIdChar(text[i]) THEN IdRunEnd(text, i + 1) ELSE i - 1

NoMatch == [start |-> 0, ms |-> 0, end |-> 0]

\* \*\*Epic ID\*\*:\s*MS-(\d+) anchored at i; ms is the index of "MS-"
EpicMatchAt(text, i) ==
    LET j == SkipSpace(text, i + 1)
        e == DigitRunEnd(text, j + 1)
    IN IF /\ i <= Len(text) /\ text[i] = "EL"
          /\ j <= Len(text) /\ text[j] = "MS"
          /\ e >= j + 1
       THEN [start |-> i, ms |-> j, end |-> e]
       ELSE NoMatch

\* (\*\*Story ID\*\*:\s*)MS-[A-Za-z0-9\-]+ anchored at i; group 1 is start..ms-1
StoryMatchAt(text, i) ==
    LET j == SkipSpace(text, i + 1)
        e == IdRunEnd(text, j + 1)
    IN IF /\ i <= Len(text) /\ text[i] = "SL"
          /\ j <= Len(text) /\ text[j] = "MS"
          /\ e >= j + 1
       THEN [start |-> i, ms |-> j, end |-> e]
       ELSE NoMatch

RECURSIVE EpicSearchFrom(_, _)
EpicSearchFrom(text, i) ==
    IF i > Len(text) THEN NoMatch
    ELSE IF EpicMatchAt(text, i) # NoMatch THEN EpicMatchAt(text, i)
    ELSE EpicSearchFrom(text, i + 1)

\* re.search: the leftmost match, or NoMatch
EpicSearch(text) == EpicSearchFrom(text, 1)

\* int(m.group(1))
EpicNum(text) ==
    LET m == EpicSearch(text) IN ParseInt(SubSeq(text, m.ms + 1, m.end))

RECURSIVE StorySearch(_, _)
StorySearch(text, i) ==
    IF i > Len(text) THEN NoMatch
    ELSE IF StoryMatchAt(text, i) # NoMatch THEN StoryMatchAt(text, i)
    ELSE StorySearch(text, i + 1)

\* variant: the "MS-" tag is left out of the replacement
Replacement_NoTag(group1, id) == group1 \o FormatInt(id)

\* variant: the label is rewritten in a normalised form instead of group 1
Replacement_NormalisedLabel(group1, id) == <<"SL", "WS", "MS">> \o FormatInt(id)

\* f"{match.group(1)}MS-{current_id}"
Replacement(group1, id) == group1 \o <<"MS">> \o FormatInt(id)

\* variant: the counter skips a value
NextId_Skips(id) == id + 2

\* current_id += 1
NextId(id) == id + 1

\* variant: the comparison with the text read is left out
ShouldWrite_IgnoresText(n, new_text, text) == n > 0

\* replacements > 0 and new_text != text
ShouldWrite(n, new_text, text) == n > 0 /\ new_text # text

\* variant: a document without an epic identifier is kept
Retain_Always(text) == TRUE

\* if not m: continue
Retain(text) == EpicSearch(text) # NoMatch

\* ------------------------------------------------------------- the loader
NameOrder == <<"EPIC_A.md", "EPIC_B.md", "README.md">>

NameRank(name) == CHOOSE k \in 1..Len(NameOrder) : NameOrder[k] = name

\* planning_dir.glob("EPIC_*.md")
GlobMatch(name) == name \in {"EPIC_A.md", "EPIC_B.md"}

\* sorted(planning_dir.glob("EPIC_*.md"))
SortedGlob(d) == SelectSeq(NameOrder, LAMBDA nm : nm \in DOMAIN d /\ GlobMatch(nm))

\* variant: a record is placed before the records with an equal key
RECURSIVE Insert_BeforeEqual(_, _)
Insert_BeforeEqual(sorted, t) ==
    IF sorted = <<>> THEN <<t>>
    ELSE LET n == Len(sorted) IN
         IF sorted[n].epic_num < t.epic_num THEN Append(sorted, t)
         ELSE Append(Insert_BeforeEqual(SubSeq(sorted, 1, n - 1), t), sorted[n])

\* one insertion of the stable sort: t goes after every record with key <= its own
RECURSIVE Insert(_, _)
Insert(sorted, t) ==
    IF sorted = <<>> THEN <<t>>
    ELSE LET n == Len(sorted) IN
         IF sorted[n].epic_num <= t.epic_num THEN Append(sorted, t)
         ELSE Append(Insert(SubSeq(sorted, 1, n - 1), t), sorted[n])

\* variant: the list is left in discovery (file name) order
SortByEpic_Unsorted(seq) == seq

RECURSIVE SortFrom(_, _)
SortFrom(acc, rest) ==
    IF rest = <<>> THEN acc ELSE SortFrom(Insert(acc, Head(rest)), Tail(rest))

\* epic_files.sort(key=lambda t: t[0]); list.sort is stable
SortByEpic(seq) == SortFrom(<<>>, seq)

\* ------------------------------------------------------------- documents
RECURSIVE SumSeq(_)
SumSeq(ns) == IF ns = <<>> THEN 0 ELSE Head(ns) + SumSeq(Tail(ns))

Headers ==
    { <<>>,
      <<"EL", "WS", "MS", "1">>,
      <<"EL", "MS", "0", "1">>,
      <<"EL", "WS", "MS", "2">>,
      <<"EL", "WS", "1">> }

BodyChunks ==
    { <<"SL", "WS", "MS", "a">>,
      <<"SL", "MS", "1", "0">>,
      <<"1", "SL", "WS", "a">> }

RECURSIVE Flatten(_)
Flatten(chunks) ==
    IF chunks = <<>> THEN <<>> ELSE Head(chunks) \o Flatten(Tail(chunks))

Bodies == UNION { [1..n -> BodyChunks] : n \in 0..MaxChunks }

\* the number of body chunks of the documents of b, a function on file names
TotalChunks(b) ==
    SumSeq([k \in 1..Len(NameOrder) |->
              IF NameOrder[k] \in DOMAIN b THEN Len(b[NameOrder[k]]) ELSE 0])

ReadmeText == <<"EL", "WS", "MS", "1", "SL", "WS", "MS", "a">>

EmptyDisk == [nm \in {} |-> <<>>]

NoLine == [kind |-> "", name |-> "", n |-> 0, through |-> 0]

\* ------------------------------------------------------------------ Init
Init ==
    /\ \/ /\ dirExists = FALSE
          /\ disk = EmptyDisk
       \/ /\ dirExists = TRUE
          /\ \E S \in SUBSET {"EPIC_A.md", "EPIC_B.md"} :
               \E b \in [S -> Bodies] :
                  /\ TotalChunks(b) <= MaxChunks
                  /\ \E h \in [S -> Headers] :
                       disk = [nm \in S |-> h[nm] \o Flatten(b[nm])]
                              @@ ("README.md" :> ReadmeText)
    /\ pc = "start"
    /\ queue = <<>>
    /\ epic_files = <<>>
    /\ idx = 0
    /\ pos = 0
    /\ out = <<>>
    /\ replacements = 0
    /\ current_id = 0
    /\ total_updates = 0
    /\ stdout = <<>>
    /\ exit = -1
    /\ reads = {}
    /\ writes = {}
    /\ assigned = <<>>
    /\ results = <<>>
    /\ orig = disk
    /\ run = 1
    /\ prev = [disk |-> disk, results |-> <<>>]

\* --------------------------------------------------------------- actions
\* variant: the directory is not checked
CheckDir_NoDirCheck ==
    /\ pc = "start"
    /\ queue' = SortedGlob(disk)
    /\ pc' = "load"
    /\ UNCHANGED <<dirExists, disk, epic_files, idx, pos, out, replacements,
                   current_id, total_updates, stdout, exit, reads, writes,
                   assigned, results, orig, run, prev>>

\* lines 11-18 and 22 (the sorted glob)
CheckDir ==
    /\ pc = "start"
    /\ IF ~dirExists
       THEN /\ stdout' = Append(stdout, [NoLine EXCEPT !.kind = "error"])
            /\ exit' = 1
            /\ pc' = "done"
            /\ queue' = queue
       ELSE /\ queue' = SortedGlob(disk)
            /\ pc' = "load"
            /\ UNCHANGED <<stdout, exit>>
    /\ UNCHANGED <<dirExists, disk, epic_files, idx, pos, out, replacements,
                   current_id, total_updates, reads, writes, assigned,
                   results, orig, run, prev>>

\* lines 22-28, one iteration
LoadFile ==
    /\ pc = "load"
    /\ queue # <<>>
    /\ LET path == Head(queue)
           text == disk[path]
       IN /\ reads' = reads \cup {path}
          /\ epic_files' =
               IF ~Retain(text) THEN epic_files
               ELSE Append(epic_files,
                           [epic_num |-> EpicNum(text), path |-> path, text |-> text])
    /\ queue' = Tail(queue)
    /\ UNCHANGED <<dirExists, disk, pc, idx, pos, out, replacements, current_id,
                   total_updates, stdout, exit, writes, assigned, results,
                   orig, run, prev>>

\* lines 30-36
Sort ==
    /\ pc = "load"
    /\ queue = <<>>
    /\ epic_files' = SortByEpic(epic_files)
    /\ current_id' = START_STORY_ID
    /\ total_updates' = 0
    /\ idx' = 1
    /\ pos' = 1
    /\ out' = <<>>
    /\ replacements' = 0
    /\ pc' = "rewrite"
    /\ UNCHANGED <<dirExists, disk, queue, stdout, exit, reads, writes,
                   assigned, results, orig, run, prev>>

\* lines 40-45: subn finds the next match and calls repl on it
Repl ==
    /\ pc = "rewrite"
    /\ idx <= Len(epic_files)
    /\ LET text == epic_files[idx].text
           m == StorySearch(text, pos)
       IN /\ m # NoMatch
          /\ out' = out \o SubSeq(text, pos, m.start - 1)
                        \o Replacement(SubSeq(text, m.start, m.ms - 1), current_id)
          /\ pos' = m.end + 1
          /\ assigned' = Append(assigned,
                                [path |-> epic_files[idx].path, id |-> current_id])
    /\ current_id' = NextId(current_id)
    /\ total_updates' = total_updates + 1
    /\ replacements' = replacements + 1
    /\ UNCHANGED <<dirExists, disk, pc, queue, epic_files, idx, stdout, exit,
                   reads, writes, results, orig, run, prev>>

\* variant: the counter starts again at every document
FinishDoc_ResetsCounter ==
    /\ pc = "rewrite"
    /\ idx <= Len(epic_files)
    /\ LET text == epic_files[idx].text
           path == epic_files[idx].path
           new_text == out \o SubSeq(text, pos, Len(text))
           w == ShouldWrite(replacements, new_text, text)
       IN /\ StorySearch(text, pos) = NoMatch
          /\ disk' = IF w THEN [disk EXCEPT ![path] = new_text] ELSE disk
          /\ writes' = IF w THEN writes \cup {path} ELSE writes
          /\ stdout' = Append(stdout,
                 IF w THEN [NoLine EXCEPT !.kind = "updated", !.name = path,
                                          !.n = replacements]
                 ELSE [NoLine EXCEPT !.kind = "noupdate", !.name = path])
          /\ results' = Append(results,
                 [path |-> path, text |-> text, new_text |-> new_text,
                  replacements |-> replacements, written |-> w])
    /\ idx' = idx + 1
    /\ pos' = 1
    /\ out' = <<>>
    /\ replacements' = 0
    /\ current_id' = START_STORY_ID
    /\ UNCHANGED <<dirExists, pc, queue, epic_files, total_updates,
                   exit, reads, assigned, orig, run, prev>>

\* lines 47-52: subn returns, the document is written or not, and reported
FinishDoc ==
    /\ pc = "rewrite"
    /\ idx <= Len(epic_files)
    /\ LET text == epic_files[idx].text
           path == epic_files[idx].path
           new_text == out \o SubSeq(text, pos, Len(text))
           w == ShouldWrite(replacements, new_text, text)
       IN /\ StorySearch(text, pos) = NoMatch
          /\ disk' = IF w THEN [disk EXCEPT ![path] = new_text] ELSE disk
          /\ writes' = IF w THEN writes \cup {path} ELSE writes
          /\ stdout' = Append(stdout,
                 IF w THEN [NoLine EXCEPT !.kind = "updated", !.name = path,
                                          !.n = replacements]
                 ELSE [NoLine EXCEPT !.kind = "noupdate", !.name = path])
          /\ results' = Append(results,
                 [path |-> path, text |-> text, new_text |-> new_text,
                  replacements |-> replacements, written |-> w])
    /\ idx' = idx + 1
    /\ pos' = 1
    /\ out' = <<>>
    /\ replacements' = 0
    /\ UNCHANGED <<dirExists, pc, queue, epic_files, current_id, total_updates,
                   exit, reads, assigned, orig, run, prev>>

\* lines 54-60
Summary ==
    /\ pc = "rewrite"
    /\ idx > Len(epic_files)
    /\ stdout' = Append(stdout,
           IF total_updates = 0 THEN [NoLine EXCEPT !.kind = "none"]
           ELSE [NoLine EXCEPT !.kind = "done", !.through = current_id - 1,
                               !.n = total_updates])
    /\ exit' = 0
    /\ pc' = "done"
    /\ UNCHANGED <<dirExists, disk, queue, epic_files, idx, pos, out,
                   replacements, current_id, total_updates, reads, writes,
                   assigned, results, orig, run, prev>>

\* lines 63-64: the script is started again on the documents as they now are
Rerun ==
    /\ pc = "done"
    /\ run < MaxRuns
    /\ run' = run + 1
    /\ prev' = [disk |-> disk,
                results |-> [k \in 1..Len(results) |->
                               [path |-> results[k].path,
                                replacements |-> results[k].replacements,
                                written |-> results[k].written]]]
    /\ orig' = disk
    /\ pc' = "start"
    /\ queue' = <<>>
    /\ epic_files' = <<>>
    /\ idx' = 0
    /\ pos' = 0
    /\ out' = <<>>
    /\ replacements' = 0
    /\ current_id' = 0
    /\ total_updates' = 0
    /\ stdout' = <<>>
    /\ exit' = -1
    /\ reads' = {}
    /\ writes' = {}
    /\ assigned' = <<>>
    /\ results' = <<>>
    /\ UNCHANGED <<dirExists, disk>>

Next ==
    \/ CheckDir
    \/ LoadFile
    \/ Sort
    \/ Repl
    \/ FinishDoc
    \/ Summary
    \/ Rerun

Spec == Init /\ [][Next]_vars

Range(f) == { f[x] : x \in DOMAIN f }

\* ------------------------------------------------- reading a document back
RECURSIVE StoryFields(_, _)
\* the matches of the story pattern in text from position i on, left to right
StoryFields(text, i) ==
    LET m == StorySearch(text, i)
    IN IF m = NoMatch THEN <<>> ELSE <<m>> \o StoryFields(text, m.end + 1)

StoryCount(text) == Len(StoryFields(text, 1))

\* the values (what follows "MS-") of the story fields of text, in order
StoryValues(text) ==
    LET fs == StoryFields(text, 1)
    IN [k \in 1..Len(fs) |-> SubSeq(text, fs[k].ms + 1, fs[k].end)]

RECURSIVE BlankFrom(_, _)
\* text with the value of every story field taken out
BlankFrom(text, i) ==
    LET m == StorySearch(text, i)
    IN IF m = NoMatch THEN SubSeq(text, i, Len(text))
       ELSE SubSeq(text, i, m.ms) \o BlankFrom(text, m.end + 1)

Blank(text) == BlankFrom(text, 1)

RECURSIVE ValuesOf(_, _)
\* the story values stored in the documents of docs (epic_files records), in order
ValuesOf(docs, d) ==
    IF docs = <<>> THEN <<>>
    ELSE StoryValues(d[Head(docs).path]) \o ValuesOf(Tail(docs), d)

IdsOf(path) == { assigned[k].id : k \in { j \in 1..Len(assigned) : assigned[j].path = path } }

Discovered == { nm \in DOMAIN orig : GlobMatch(nm) }

Retained == { nm \in Discovered : EpicSearch(orig[nm]) # NoMatch }

Finished == pc = "done" /\ exit = 0

DocLines == SubSeq(stdout, 1, Len(stdout) - 1)

SummaryLine == stdout[Len(stdout)]

\* ---------------------------------------------------------------- claims

\* C1: the identifiers assigned, in epic order of the documents and then in
\* textual order within each document, are 10, 11, 12, ...; the counter is
\* not reset between documents.
C1_GlobalSequence ==
    /\ \A k \in 1..Len(assigned) : assigned[k].id = 10 + k - 1
    /\ Finished =>
         LET vals == ValuesOf(epic_files, disk)
         IN /\ Len(vals) = Len(assigned)
            /\ \A k \in 1..Len(vals) : vals[k] = FormatInt(10 + k - 1)
            /\ \A j, k \in 1..Len(epic_files) :
                 j < k => epic_files[j].epic_num <= epic_files[k].epic_num

C1_Witness ==
    /\ Finished
    /\ Len(epic_files) = 2
    /\ epic_files[1].epic_num < epic_files[2].epic_num
    /\ StoryCount(epic_files[1].text) = 2
    /\ StoryCount(epic_files[2].text) = 1

\* C2: (read at the end of every run) documents are processed in ascending order of declared epic number,
\* not of file name: when A's name sorts after B's and A's epic number is
\* smaller, every identifier assigned in A is smaller than every one in B.
C2_EpicOrderNotNameOrder ==
    /\ Finished =>
         /\ \A k \in 1..Len(epic_files) :
              epic_files[k].epic_num = EpicNum(orig[epic_files[k].path])
         /\ \A j, k \in 1..Len(epic_files) :
              j < k => epic_files[j].epic_num <= epic_files[k].epic_num
    /\ Finished =>
         \A A, B \in Retained :
            (NameRank(A) > NameRank(B) /\ EpicNum(orig[A]) < EpicNum(orig[B]))
            => \A a \in { ParseInt(v) : v \in Range(StoryValues(disk[A])) } :
               \A b \in { ParseInt(v) : v \in Range(StoryValues(disk[B])) } : a < b

C2_Witness ==
    /\ Finished
    /\ Retained = {"EPIC_A.md", "EPIC_B.md"}
    /\ EpicNum(orig["EPIC_B.md"]) < EpicNum(orig["EPIC_A.md"])
    /\ StoryCount(orig["EPIC_A.md"]) = 1
    /\ StoryCount(orig["EPIC_B.md"]) = 2
    /\ disk["EPIC_B.md"] # orig["EPIC_B.md"]

\* C3: (read at the end of every run) a discovered document without the epic-identifier pattern is skipped
\* without error: its content is unchanged, it is never written, and its
\* story fields neither advance the counter nor count in the total.
C3_SkippedDocumentUntouched ==
    pc = "done" =>
        \A p \in Discovered \ Retained :
            /\ disk[p] = orig[p]
            /\ p \in reads
            /\ p \notin writes
            /\ IdsOf(p) = {}
            /\ \A k \in 1..Len(stdout) : stdout[k].name # p
            /\ \A k \in 1..Len(epic_files) : epic_files[k].path # p
            /\ exit = 0
            /\ total_updates =
                 SumSeq([k \in 1..Len(epic_files) |-> StoryCount(orig[epic_files[k].path])])
            /\ \A q \in Retained : \E k \in 1..Len(epic_files) : epic_files[k].path = q
            /\ current_id = 10 + total_updates

C3_Witness ==
    /\ Finished
    /\ "EPIC_A.md" \in Discovered \ Retained
    /\ StoryCount(orig["EPIC_A.md"]) = 2
    /\ "EPIC_B.md" \in Retained
    /\ StoryCount(orig["EPIC_B.md"]) = 1
    /\ total_updates = 1

\* C4: (over the documents processed in a run, read at its end) a retained
\* document is written iff at least one story field was replaced in it and
\* the rewritten text differs from the text read; a
\* document with no story field is left unmodified and reported as having
\* no updates.
C4_WrittenIffChanged ==
    /\ Len(results) <= Len(stdout)
    /\ \A p \in writes : \E k \in 1..Len(results) : results[k].path = p
    /\ pc = "done" => \A k \in 1..Len(results) :
         LET r == results[k]
         IN /\ r.written <=> (r.replacements > 0 /\ r.new_text # r.text)
            /\ r.path \in writes <=> r.written
            /\ disk[r.path] = IF r.written THEN r.new_text ELSE r.text
            /\ stdout[k].name = r.path
            /\ stdout[k].kind = IF r.written THEN "updated" ELSE "noupdate"
            /\ StoryCount(r.text) = 0 =>
                 /\ ~r.written
                 /\ disk[r.path] = orig[r.path]
                 /\ stdout[k].kind = "noupdate"

C4_Witness ==
    /\ Finished
    /\ run = 1
    /\ Len(results) = 2
    /\ results[1].replacements > 0 /\ results[1].new_text = results[1].text
    /\ ~results[1].written
    /\ results[2].written

\* C5: when the planning directory does not exist the run ends at once with
\* a non-zero exit status, having read and written no document; in every
\* other case the exit status is zero.
C5_ExitStatus ==
    /\ ~dirExists =>
         /\ pc \in {"start", "done"}
         /\ reads = {} /\ writes = {} /\ disk = orig
         /\ pc = "done" => exit # 0
    /\ dirExists /\ pc = "done" => exit = 0
    /\ pc # "done" => exit = -1

C5_Witness == ~dirExists /\ pc = "done" /\ exit = 1 /\ run = 1

C5_WitnessNoDocuments ==
    dirExists /\ pc = "done" /\ exit = 0 /\ Discovered = {} /\ run = 1

\* the part of C6 that the code satisfies: the re-run matches the same number
\* of fields in each document and numbers them from 10 again
RerunMatchesAgain ==
    /\ Len(results) = Len(prev.results)
    /\ \A k \in 1..Len(results) :
         /\ results[k].path = prev.results[k].path
         /\ results[k].replacements = prev.results[k].replacements
    /\ \A k \in 1..Len(assigned) : assigned[k].id = 10 + k - 1

\* C6 (as stated): a re-run on the output of the previous run matches the
\* same fields and numbers them from 10 again, and the identifier values in
\* the documents change on every run.
C6_ValuesChangeEveryRun ==
    (Finished /\ run > 1) =>
        /\ RerunMatchesAgain
        /\ Len(assigned) > 0 => disk # prev.disk

\* C6 (amended): a re-run on the output of the previous run matches the same
\* number of fields in each document and numbers them from 10 again; every
\* field gets the value it already has, so no document changes or is written.
C6_RerunIsIdempotent ==
    (Finished /\ run > 1) =>
        /\ RerunMatchesAgain
        /\ disk = prev.disk
        /\ writes = {}
        /\ \A k \in 1..Len(results) : results[k].new_text = results[k].text

C6_Witness ==
    /\ Finished
    /\ run = 2
    /\ Len(results) = 2
    /\ \A k \in 1..2 : results[k].replacements > 0
    /\ \E k \in 1..2 : prev.results[k].written

\* C7: the summary line says that no updates were performed exactly when no
\* document was reported as updated; otherwise it gives the highest
\* identifier assigned and a total equal to the sum of the counts of the
\* per-document report lines.
C7_SummaryMatchesReports ==
    Finished =>
        /\ SummaryLine.kind = "none" <=>
             (\A k \in 1..Len(DocLines) : DocLines[k].kind # "updated")
        /\ SummaryLine.kind # "none" =>
             /\ SummaryLine.kind = "done"
             /\ SummaryLine.n = SumSeq([k \in 1..Len(DocLines) |-> DocLines[k].n])
             /\ \E k \in 1..Len(assigned) : assigned[k].id = SummaryLine.through
             /\ \A k \in 1..Len(assigned) : assigned[k].id <= SummaryLine.through

\* the number of story fields replaced so far, counted in the produced text
ReplacedSoFar ==
    SumSeq([k \in 1..Len(results) |-> StoryCount(results[k].new_text)])
    + StoryCount(out)

\* every replacement made so far is recorded, with the document it was made in
ReplacementsRecorded ==
    /\ Len(assigned) =
         SumSeq([k \in 1..Len(results) |-> results[k].replacements]) + replacements
    /\ \A k \in 1..Len(results) :
         Cardinality(IdsOf(results[k].path)) = results[k].replacements

\* C8: the counter always equals 10 plus the number of story fields replaced
\* so far; it goes up by one per replaced field, never goes down and is
\* never reset during a run, and the value printed in the summary is
\* 10 + total replacements - 1.
C8_CounterTracksReplacements ==
    /\ [](pc = "rewrite" =>
            /\ current_id = 10 + Len(assigned)
            /\ total_updates = Len(assigned)
            /\ idx <= Len(epic_files) => StoryCount(out) = replacements)
    /\ [](Finished =>
            /\ current_id = 10 + ReplacedSoFar
            /\ total_updates = ReplacedSoFar
            /\ ReplacementsRecorded)
    /\ [](Finished /\ total_updates > 0 =>
            /\ SummaryLine.kind = "done"
            /\ SummaryLine.through = 10 + total_updates - 1
            /\ assigned[Len(assigned)].id = SummaryLine.through)
    /\ [][(pc = "rewrite" /\ run' = run) =>
            /\ current_id' >= current_id
            /\ current_id' - current_id = Len(assigned') - Len(assigned)
            /\ current_id' - current_id \in {0, 1}]_vars

C8_Witness ==
    /\ Finished
    /\ Len(results) = 2
    /\ results[1].replacements = 2
    /\ results[2].replacements = 1
    /\ current_id = 13

\* C9: (over the documents processed in a run, read at its end) rewriting
\* changes only the values of the story fields: the label
\* prefix with its whitespace is kept, "MS-<value>" becomes "MS-<counter>",
\* the number and order of the fields is kept, and all other text, the epic
\* line and non-matching labels included, is untouched.
C9_OnlyValuesChange ==
    pc = "done" => \A k \in 1..Len(results) :
        LET r == results[k]
            old == StoryFields(r.text, 1)
            new == StoryFields(r.new_text, 1)
        IN /\ Len(new) = Len(old)
           /\ Len(new) = r.replacements
           /\ Blank(r.new_text) = Blank(r.text)
           /\ \A j \in 1..Len(new) :
                /\ SubSeq(r.new_text, new[j].start, new[j].ms)
                     = SubSeq(r.text, old[j].start, old[j].ms)
                /\ \E n \in 10..(10 + Len(assigned)) :
                     StoryValues(r.new_text)[j] = FormatInt(n)
           /\ (EpicSearch(r.text) # NoMatch) = (EpicSearch(r.new_text) # NoMatch)
           /\ EpicNum(r.new_text) = EpicNum(r.text)

C9_Witness ==
    /\ Finished
    /\ \E k \in 1..Len(results) :
         /\ results[k].text = <<"EL", "MS", "0", "1", "SL", "MS", "1", "0",
                                "1", "SL", "WS", "a">>
         /\ results[k].new_text # results[k].text
         /\ results[k].written

\* C10: sorting by epic number is stable: of two documents declaring the
\* same epic number, the one discovered first is processed first and gets
\* the smaller identifiers.
C10_StableOnTies ==
    /\ Finished =>
         \A j, k \in 1..Len(epic_files) :
            (j < k /\ epic_files[j].epic_num = epic_files[k].epic_num)
            => NameRank(epic_files[j].path) < NameRank(epic_files[k].path)
    /\ Finished => \A A, B \in Retained :
         (NameRank(A) < NameRank(B) /\ EpicNum(orig[A]) = EpicNum(orig[B]))
         => \A a \in IdsOf(A) : \A b \in IdsOf(B) : a < b

C10_Witness ==
    /\ Finished
    /\ Retained = {"EPIC_A.md", "EPIC_B.md"}
    /\ EpicNum(orig["EPIC_A.md"]) = EpicNum(orig["EPIC_B.md"])
    /\ EpicSearch(orig["EPIC_A.md"]) # EpicSearch(orig["EPIC_B.md"])
    /\ IdsOf("EPIC_A.md") = {10, 11}
    /\ IdsOf("EPIC_B.md") = {12}

====
